---- MODULE Spec2Model ----
(***************************************************************************)
(* A model of the file organization engine of file_organizer_standalone.py *)
(* (class FileOrganizer, its watchdog handler and the observer sessions).  *)
(*                                                                         *)
(* A file name is a sequence of tokens: "." is a token of its own, every   *)
(* other token is a run of characters holding no dot ("photo", "_", "1",   *)
(* "jpg").  A path is a sequence of names.  Durations are counted in       *)
(* half seconds (check_interval = 0.5 s = 1), the clock in ticks of        *)
(* 1/TicksPerPoll half seconds.                                            *)
(***************************************************************************)
EXTENDS Integers, Sequences, FiniteSets, TLC

\* ------------------------------------------------------------- bounds
MaxObservers == 2
MaxFiles == 2
MaxSize == 1
MaxWrites == 1
MaxQueue == 1
MaxGrow == 2
MaxRules == 2
MaxDup == 2
TicksPerPoll == 2

\* ------------------------------------------- constants of the program
\* _is_file_ready(stability_period=2, check_interval=0.5, max_wait_time=30),
\* in half seconds.
stability_period == 4
check_interval == 1
max_wait_time == 60

\* ------------------------------------------------------ names, paths
Dot == "."

Min(a, b) == IF a < b THEN a ELSE b

\* str.lower() on one token.
LowerTok(t) ==
  CASE t = "JPG" -> "jpg"
    [] t = "Photo" -> "photo"
    [] OTHER -> t

\* str.lower()
Lower(s) == [i \in 1..Len(s) |-> LowerTok(s[i])]

\* str.lstrip('.')
RECURSIVE LStripDot(_)
LStripDot(s) == IF s # <<>> /\ Head(s) = Dot THEN LStripDot(Tail(s)) ELSE s

\* str.rfind('.'), 1-based, 0 when there is none.
RFindDot(name) ==
  LET I == {i \in 1..Len(name) : name[i] = Dot}
  IN  IF I = {} THEN 0 ELSE CHOOSE i \in I : \A j \in I : j <= i

\* PurePath.suffix: from the last dot on, unless that dot is the first or the
\* last character of the name.
Suffix(name) ==
  LET i == RFindDot(name)
  IN  IF 1 < i /\ i < Len(name) THEN SubSeq(name, i, Len(name)) ELSE <<>>

\* PurePath.stem
Stem(name) ==
  LET i == RFindDot(name)
  IN  IF 1 < i /\ i < Len(name) THEN SubSeq(name, 1, i - 1) ELSE name

\* str.startswith('.')
StartsWithDot(name) == name # <<>> /\ name[1] = Dot

\* str.endswith('.tmp')
EndsWithTmp(name) ==
  Len(name) >= 2 /\ name[Len(name) - 1] = Dot /\ name[Len(name)] = "tmp"

DigitTok(d) ==
  CASE d = 0 -> "0" [] d = 1 -> "1" [] d = 2 -> "2" [] d = 3 -> "3"
    [] d = 4 -> "4" [] d = 5 -> "5" [] d = 6 -> "6" [] d = 7 -> "7"
    [] d = 8 -> "8" [] OTHER -> "9"

\* f"{counter}": the decimal digits of a positive counter.
RECURSIVE Digits(_)
Digits(k) ==
  IF k < 10 THEN <<DigitTok(k)>> ELSE Digits(k \div 10) \o <<DigitTok(k % 10)>>

\* f"{file_stem}_{counter}{file_suffix}"
new_name_plain(file_stem, counter, file_suffix) ==
  file_stem \o Digits(counter) \o file_suffix
new_name(file_stem, counter, file_suffix) ==
  file_stem \o <<"_">> \o Digits(counter) \o file_suffix

\* PurePath.parent, PurePath.name, the / operator
Parent(p) == IF p = <<>> THEN <<>> ELSE SubSeq(p, 1, Len(p) - 1)
NameOf(p) == IF p = <<>> THEN <<>> ELSE p[Len(p)]
Join(dir, name) == Append(dir, name)

\* --------------------------------------------------------- file system
\* fs maps every existing path to [kind, size, id]; the root <<>> is a
\* directory that always exists.  id names the content of a file.
DirEntry == [kind |-> "dir", size |-> 0, id |-> 0]
FileEntry(size, id) == [kind |-> "file", size |-> size, id |-> id]

\* Path.exists()
Exists(f, p) == p = <<>> \/ p \in DOMAIN f

\* Path.is_dir()
IsDir(f, p) == p = <<>> \/ (p \in DOMAIN f /\ f[p].kind = "dir")

IsFile(f, p) == p \in DOMAIN f /\ f[p].kind = "file"

Remove(f, p) == [q \in DOMAIN f \ {p} |-> f[q]]

\* Path.mkdir(parents=True, exist_ok=True): nothing to do for a directory,
\* FileExistsError / NotADirectoryError when a file is in the way (detected
\* at the deepest existing ancestor, before anything is created), the missing
\* ancestors first otherwise.
RECURSIVE Mkdir(_, _)
Mkdir(f, p) ==
  IF IsDir(f, p) THEN [ok |-> TRUE, fs |-> f]
  ELSE IF p \in DOMAIN f THEN [ok |-> FALSE, fs |-> f]
  ELSE LET r == Mkdir(f, Parent(p))
       IN  IF r.ok THEN [ok |-> TRUE, fs |-> (p :> DirEntry) @@ r.fs]
           ELSE [ok |-> FALSE, fs |-> f]

\* shutil.move(src, dst): into dst when dst is a directory (an error when the
\* name is taken there), else a rename that replaces an existing file; an
\* error when the source is gone or the destination folder is missing.
Move(f, src, dst) ==
  LET real_dst == IF IsDir(f, dst) THEN Join(dst, NameOf(src)) ELSE dst
  IN  IF \/ ~IsFile(f, src)
         \/ (IsDir(f, dst) /\ Exists(f, real_dst))
         \/ ~IsDir(f, Parent(real_dst))
      THEN [ok |-> FALSE, fs |-> f, to |-> real_dst]
      ELSE [ok |-> TRUE,
            fs |-> [q \in (DOMAIN f \ {src}) \cup {real_dst} |->
                      IF q = real_dst THEN f[src] ELSE f[q]],
            to |-> real_dst]

\* ------------------------------------------------------- configuration
\* self.config: downloads_folder, handle_duplicates and categories, the
\* categories in the iteration order of the dict.  folder_path <<>> is the
\* empty string.
Rule(name, folder_path, enabled, extensions) ==
  [name |-> name, folder_path |-> folder_path, enabled |-> enabled,
   extensions |-> extensions]

Config(downloads_folder, handle_duplicates, categories) ==
  [downloads_folder |-> downloads_folder,
   handle_duplicates |-> handle_duplicates, categories |-> categories]

\* `category in self.config.get("categories", {})`
HasCategory(cfg, category) ==
  \E i \in 1..Len(cfg.categories) : cfg.categories[i].name = category

\* self.config["categories"][category]
CategoryInfo(cfg, category) ==
  cfg.categories[CHOOSE i \in 1..Len(cfg.categories) :
                   cfg.categories[i].name = category]

\* FileOrganizer.get_file_category: the loop over the categories from the
\* i-th on, then the whole function.
RECURSIVE category_loop_any(_, _, _)
category_loop_any(categories, i, file_ext) ==
  IF i > Len(categories) THEN "Others"
  ELSE IF file_ext \in categories[i].extensions
       THEN categories[i].name
       ELSE category_loop_any(categories, i + 1, file_ext)

RECURSIVE category_loop(_, _, _)
category_loop(categories, i, file_ext) ==
  IF i > Len(categories) THEN "Others"
  ELSE IF categories[i].enabled /\ file_ext \in categories[i].extensions
       THEN categories[i].name
       ELSE category_loop(categories, i + 1, file_ext)

get_file_category(cfg, file_path) ==
  category_loop(cfg.categories, 1,
                LStripDot(Lower(Suffix(NameOf(file_path)))))

\* ---------------------------------------------------------------- state
VARIABLES
  fs,          \* the file system
  config,      \* FileOrganizer.config
  observer,    \* FileOrganizer.observer: 0 (None) or an observer thread
  thr,         \* the observer threads: session state, event queue, and the
               \* position and locals of the organize_file run in progress
  gui,         \* the GUI thread inside start_monitoring / stop_monitoring
  moves,       \* history: the moves performed
  gone,        \* history: source paths a run moved a file from, nothing
               \* having appeared there since
  nfiles,      \* number of file contents created so far
  nwrites,     \* number of size changes so far
  sinceWrite,  \* ticks since the last size change (stopwatch, capped)
  form,        \* the entries of the GUI form: downloads_var, category_vars
  published    \* history: the configurations saved or being saved so far

vars == <<fs, config, observer, thr, gui, moves, gone, nfiles,
          nwrites, sinceWrite, form, published>>

Threads == 1..MaxObservers

\* Number of polled sizes remembered per run (history).
Window == stability_period \div check_interval + 1

StopwatchCap == (stability_period + 2 * check_interval) * TicksPerPoll

\* The locals of organize_file and of the functions it calls, outside a run.
Locals ==
  [pc |-> "idle", file_path |-> <<>>, last_size |-> -1, stable_time |-> 0,
   total_wait_time |-> 0, slp |-> 0, category |-> "", dest_folder |-> <<>>,
   dest_path |-> <<>>, original_dest_path |-> <<>>, counter |-> 0,
   polled |-> <<>>, nresets |-> 0, raced |-> FALSE, after_gone |-> FALSE,
   created |-> {}, kind |-> "", reason |-> "", to |-> <<>>]

Session(st, watch, queue) == [st |-> st, watch |-> watch, queue |-> queue]

\* A thread record: the session fields and the locals.
Thread(session, locals) == session @@ locals

SessionOf(r) == Session(r.st, r.watch, r.queue)

\* Thread t goes on within its run, to pc with the locals upd changed.
Goto(t, pc, upd) ==
  thr' = [thr EXCEPT ![t] = [f \in DOMAIN thr[t] |->
            IF f = "pc" THEN pc
            ELSE IF f \in DOMAIN upd THEN upd[f] ELSE thr[t][f]]]

\* The run of thread t ends: organize_file is about to return.  kind and
\* reason name the way out (Moved: return True after the move; Skipped: one
\* of the `return False` of the try block; Failed: the except branch).
Finish(t, kind, reason, to) ==
  Goto(t, "done", [kind |-> kind, reason |-> reason, to |-> to])

\* `except Exception as e` of organize_file: an error raised anywhere in the
\* try block ends the run there, logged, with `return False`.
of_except_propagate(t, reason) == Finish(t, "Raised", reason, <<>>)
of_except_retry(t, reason) == Goto(t, "gdp_cfg", <<>>)
of_except(t, reason) == Finish(t, "Failed", reason, <<>>)

\* What the world outside the engine sets: the files, the clock, the entries
\* the user makes in the form.
Env == <<nfiles, nwrites, sinceWrite, form>>
Hist == <<moves, gone, published>>

\* ------------------------------------------------- the watchdog handler
\* Event(type, path): path is src_path of a creation and dest_path of a move.
Event(type, path) == [type |-> type, path |-> path]

\* The observer thread takes the next event off its queue and calls the
\* handler for it.
Dispatched(t, type) ==
  /\ thr[t].st = "run"
  /\ thr[t].pc = "idle"
  /\ thr[t].queue # <<>>
  /\ Head(thr[t].queue).type = type

\* The handler calls organize_file with the event's path.
Call(t) ==
  thr' = [thr EXCEPT ![t] =
    Thread(Session(thr[t].st, thr[t].watch, Tail(thr[t].queue)),
           [Locals EXCEPT !.pc = "of_exists",
                          !.file_path = Head(thr[t].queue).path,
                          !.after_gone = Head(thr[t].queue).path \in gone])]

\* FileOrganizerHandler.on_created
on_created(t) ==
  /\ Dispatched(t, "created")
  /\ Call(t)
  /\ UNCHANGED <<fs, config, observer, gui, Hist, Env>>

\* FileOrganizerHandler.on_moved
on_moved(t) ==
  /\ Dispatched(t, "moved")
  /\ Call(t)
  /\ UNCHANGED <<fs, config, observer, gui, Hist, Env>>

\* ------------------------------------------------------- organize_file
\* `if not file_path.exists()`
of_exists_unchecked(t) ==
  /\ thr[t].pc = "of_exists"
  /\ Goto(t, "of_isdir", <<>>)
  /\ UNCHANGED <<fs, config, observer, gui, Hist, Env>>

of_exists(t) ==
  /\ thr[t].pc = "of_exists"
  /\ IF ~Exists(fs, thr[t].file_path)
     THEN Finish(t, "Skipped", "not_found", <<>>)
     ELSE Goto(t, "of_isdir", <<>>)
  /\ UNCHANGED <<fs, config, observer, gui, Hist, Env>>

\* The hidden / temporary / directory test.
of_isdir_nodir(t) ==
  /\ thr[t].pc = "of_isdir"
  /\ IF \/ StartsWithDot(NameOf(thr[t].file_path))
        \/ EndsWithTmp(NameOf(thr[t].file_path))
     THEN Finish(t, "Skipped", "hidden_tmp_dir", <<>>)
     ELSE Goto(t, "of_scope", <<>>)
  /\ UNCHANGED <<fs, config, observer, gui, Hist, Env>>

of_isdir(t) ==
  /\ thr[t].pc = "of_isdir"
  /\ IF \/ StartsWithDot(NameOf(thr[t].file_path))
        \/ EndsWithTmp(NameOf(thr[t].file_path))
        \/ IsDir(fs, thr[t].file_path)
     THEN Finish(t, "Skipped", "hidden_tmp_dir", <<>>)
     ELSE Goto(t, "of_scope", <<>>)
  /\ UNCHANGED <<fs, config, observer, gui, Hist, Env>>

\* The downloads-folder test.
of_scope_below(t) ==
  /\ thr[t].pc = "of_scope"
  /\ IF \/ Parent(thr[t].file_path) = config.downloads_folder
        \/ Parent(Parent(thr[t].file_path)) = config.downloads_folder
     THEN Goto(t, "ifr_exists", <<>>)
     ELSE Finish(t, "Skipped", "out_of_scope", <<>>)
  /\ UNCHANGED <<fs, config, observer, gui, Hist, Env>>

of_scope(t) ==
  /\ thr[t].pc = "of_scope"
  /\ IF Parent(thr[t].file_path) = config.downloads_folder
     THEN Goto(t, "ifr_exists", <<>>)
     ELSE Finish(t, "Skipped", "out_of_scope", <<>>)
  /\ UNCHANGED <<fs, config, observer, gui, Hist, Env>>

\* ------------------------------------------------------ _is_file_ready
\* The entry of _is_file_ready: the existence test and the three counters.
ifr_exists(t) ==
  /\ thr[t].pc = "ifr_exists"
  /\ IF ~Exists(fs, thr[t].file_path)
     THEN Finish(t, "Skipped", "not_ready_missing", <<>>)
     ELSE Goto(t, "ifr_poll",
               [last_size |-> -1, stable_time |-> 0, total_wait_time |-> 0])
  /\ UNCHANGED <<fs, config, observer, gui, Hist, Env>>

\* The last Window polled sizes, newest last.
Remember(polled, size) ==
  LET a == Append(polled, size)
  IN  IF Len(a) > Window THEN Tail(a) ELSE a

\* `while total_wait_time < max_wait_time`
while_test(total_wait_time) == total_wait_time < max_wait_time

\* stable_time after a poll: `stable_time += check_interval` when the size
\* is the one of the poll before, `stable_time = 0` otherwise.
next_stable_time_keep(current_size, last_size, stable_time) ==
  IF current_size = last_size THEN stable_time + check_interval
  ELSE stable_time
next_stable_time(current_size, last_size, stable_time) ==
  IF current_size = last_size THEN stable_time + check_interval ELSE 0

\* `if stable_time >= stability_period`
is_stable_late(stable_time) == stable_time > stability_period
is_stable_early(stable_time) == stable_time >= stability_period - check_interval
is_stable(stable_time) == stable_time >= stability_period

\* The loop is over: `return False` after the warning, and organize_file
\* skips.
ifr_timeout_proceed(t) == Goto(t, "gfc", <<>>)
ifr_timeout(t) == Finish(t, "Skipped", "not_ready_timeout", <<>>)

\* `except FileNotFoundError: return False`, and organize_file skips.
ifr_disappeared_raise(t) == Finish(t, "Failed", "stat", <<>>)
ifr_disappeared(t) == Finish(t, "Skipped", "not_ready_disappeared", <<>>)

\* One turn of the while loop up to the sleep: the loop test, the stat and
\* the comparison with the previous size.
ifr_poll(t) ==
  LET r == thr[t] IN
  /\ r.pc = "ifr_poll"
  /\ IF ~while_test(r.total_wait_time) THEN ifr_timeout(t)
     ELSE IF ~Exists(fs, r.file_path) THEN ifr_disappeared(t)
     ELSE LET current_size == fs[r.file_path].size
              stable_time ==
                next_stable_time(current_size, r.last_size, r.stable_time)
              seen == [polled |-> Remember(r.polled, current_size),
                       nresets |-> IF current_size = r.last_size
                                   THEN r.nresets
                                   ELSE Min(r.nresets + 1, Window),
                       last_size |-> current_size,
                       stable_time |-> stable_time]
          IN  IF current_size = r.last_size /\ is_stable(stable_time)
              THEN Goto(t, "gfc", seen)
              ELSE Goto(t, "ifr_sleep",
                        seen @@ [slp |-> check_interval * TicksPerPoll])
  /\ UNCHANGED <<fs, config, observer, gui, Hist, Env>>

\* time.sleep(check_interval) returns; total_wait_time += check_interval.
ifr_wake_nocount(t) ==
  /\ thr[t].pc = "ifr_sleep"
  /\ Goto(t, "ifr_poll", [slp |-> 0])
  /\ UNCHANGED <<fs, config, observer, gui, Hist, Env>>

ifr_wake(t) ==
  /\ thr[t].pc = "ifr_sleep"
  /\ Goto(t, "ifr_poll",
          [total_wait_time |-> thr[t].total_wait_time + check_interval,
           slp |-> 0])
  /\ UNCHANGED <<fs, config, observer, gui, Hist, Env>>

\* The same, on the clock: the sleep returns when its time is over.
ifr_wake_timed(t) == thr[t].slp = 0 /\ ifr_wake(t)

\* ------------------------------------- categorization and destination
\* category = self.get_file_category(str(file_path))
gfc(t) ==
  /\ thr[t].pc = "gfc"
  /\ Goto(t, "gdp_cfg",
          [category |-> get_file_category(config, thr[t].file_path)])
  /\ UNCHANGED <<fs, config, observer, gui, Hist, Env>>

\* get_destination_path, the look-up of the category: its folder, None for
\* an empty folder_path (organize_file then skips), or the Others branch.
gdp_cfg_fallback(t) ==
  /\ thr[t].pc = "gdp_cfg"
  /\ IF /\ HasCategory(config, thr[t].category)
        /\ CategoryInfo(config, thr[t].category).folder_path # <<>>
     THEN Goto(t, "gdp_mkdir",
            [dest_folder |->
               CategoryInfo(config, thr[t].category).folder_path])
     ELSE Goto(t, "gdp_others_cfg", <<>>)
  /\ UNCHANGED <<fs, config, observer, gui, Hist, Env>>

gdp_cfg(t) ==
  /\ thr[t].pc = "gdp_cfg"
  /\ IF HasCategory(config, thr[t].category)
     THEN IF CategoryInfo(config, thr[t].category).folder_path # <<>>
          THEN Goto(t, "gdp_mkdir",
                 [dest_folder |->
                    CategoryInfo(config, thr[t].category).folder_path])
          ELSE Finish(t, "Skipped", "no_folder", <<>>)
     ELSE Goto(t, "gdp_others_cfg", <<>>)
  /\ UNCHANGED <<fs, config, observer, gui, Hist, Env>>

\* others_folder = downloads_folder / "Others"
gdp_others_cfg(t) ==
  /\ thr[t].pc = "gdp_others_cfg"
  /\ Goto(t, "gdp_others_mkdir",
          [dest_folder |-> Join(config.downloads_folder, <<"Others">>)])
  /\ UNCHANGED <<fs, config, observer, gui, Hist, Env>>

\* The folders a mkdir has created (history).
Made(f, g) == DOMAIN g \ DOMAIN f

\* others_folder.mkdir(parents=True, exist_ok=True); an error ends the run
\* in the except branch of organize_file.
gdp_others_mkdir(t) ==
  LET r == Mkdir(fs, thr[t].dest_folder) IN
  /\ thr[t].pc = "gdp_others_mkdir"
  /\ IF r.ok
     THEN fs' = r.fs /\ Goto(t, "gdp_mkdir", [created |-> Made(fs, r.fs)])
     ELSE fs' = fs /\ of_except(t, "mkdir")
  /\ UNCHANGED <<config, observer, gui, Hist, Env>>

\* dest_folder.mkdir(parents=True, exist_ok=True), the returned path, and
\* the same-folder test of organize_file.
gdp_mkdir_nosame(t) ==
  LET r == Mkdir(fs, thr[t].dest_folder)
      dest_path == Join(thr[t].dest_folder, NameOf(thr[t].file_path))
  IN
  /\ thr[t].pc = "gdp_mkdir"
  /\ IF ~r.ok
     THEN fs' = fs /\ of_except(t, "mkdir")
     ELSE /\ fs' = r.fs
          /\ Goto(t, "hd_exists",
                  [dest_path |-> dest_path,
                   created |-> thr[t].created \cup Made(fs, r.fs)])
  /\ UNCHANGED <<config, observer, gui, Hist, Env>>

gdp_mkdir(t) ==
  LET r == Mkdir(fs, thr[t].dest_folder)
      dest_path == Join(thr[t].dest_folder, NameOf(thr[t].file_path))
  IN
  /\ thr[t].pc = "gdp_mkdir"
  /\ IF ~r.ok
     THEN fs' = fs /\ of_except(t, "mkdir")
     ELSE /\ fs' = r.fs
          /\ IF Parent(thr[t].file_path) = Parent(dest_path)
             THEN Finish(t, "Skipped", "same_folder", <<>>)
             ELSE Goto(t, "hd_exists",
                    [dest_path |-> dest_path,
                     created |-> thr[t].created \cup Made(fs, r.fs)])
  /\ UNCHANGED <<config, observer, gui, Hist, Env>>

\* ---------------------------------------------------- handle_duplicate
\* `if not dest_path.exists(): return dest_path`
hd_exists(t) ==
  /\ thr[t].pc = "hd_exists"
  /\ IF ~Exists(fs, thr[t].dest_path)
     THEN Goto(t, "move", <<>>)
     ELSE Goto(t, "hd_cfg", <<>>)
  /\ UNCHANGED <<fs, config, observer, gui, Hist, Env>>

\* The branch on handle_method: skip returns None (organize_file returns),
\* overwrite returns dest_path, anything else starts the renaming loop.
hd_policy_noskip(t, handle_method) ==
  IF handle_method = "overwrite"
  THEN Goto(t, "move", <<>>)
  ELSE Goto(t, "hd_loop",
         [counter |-> 1, original_dest_path |-> thr[t].dest_path])
hd_policy(t, handle_method) ==
  IF handle_method = "skip"
  THEN Finish(t, "Skipped", "duplicate", <<>>)
  ELSE IF handle_method = "overwrite"
  THEN Goto(t, "move", <<>>)
  ELSE Goto(t, "hd_loop",
         [counter |-> 1, original_dest_path |-> thr[t].dest_path])

\* handle_method = self.config.get("handle_duplicates", "rename") and the
\* branch on it.
hd_cfg(t) ==
  /\ thr[t].pc = "hd_cfg"
  /\ hd_policy(t, config.handle_duplicates)
  /\ UNCHANGED <<fs, config, observer, gui, Hist, Env>>

\* new_name and `dest_path = original_dest_path.parent / new_name`
next_candidate_chained(original_dest_path, dest_path, counter) ==
  Join(Parent(original_dest_path),
       new_name(Stem(NameOf(dest_path)), counter, Suffix(NameOf(dest_path))))
next_candidate(original_dest_path, dest_path, counter) ==
  Join(Parent(original_dest_path),
       new_name(Stem(NameOf(original_dest_path)), counter,
                Suffix(NameOf(original_dest_path))))

\* One turn of `while dest_path.exists()`.
hd_loop(t) ==
  LET r == thr[t] IN
  /\ r.pc = "hd_loop"
  /\ IF Exists(fs, r.dest_path)
     THEN Goto(t, "hd_loop",
            [dest_path |-> next_candidate(r.original_dest_path, r.dest_path,
                                          r.counter),
             counter |-> r.counter + 1])
     ELSE Goto(t, "move", <<>>)
  /\ UNCHANGED <<fs, config, observer, gui, Hist, Env>>

\* ------------------------------------------------------------ the move
\* A run of another thread on the path a file was just moved from has been
\* overtaken.
Overtake(t, path) ==
  [u \in Threads |->
     IF u # t /\ thr[u].pc \notin {"idle", "done"} /\ thr[u].file_path = path
     THEN [thr[u] EXCEPT !.raced = TRUE] ELSE thr[u]]

\* shutil.move(str(file_path), str(final_dest_path)); an error ends the run
\* in the except branch.
move(t) ==
  LET r == Move(fs, thr[t].file_path, thr[t].dest_path) IN
  /\ thr[t].pc = "move"
  /\ IF r.ok
     THEN /\ fs' = r.fs
          /\ moves' = moves \cup
               {[id |-> fs[thr[t].file_path].id, from |-> thr[t].file_path,
                 to |-> r.to]}
          /\ gone' = (gone \cup {thr[t].file_path}) \ {r.to}
          /\ thr' = [Overtake(t, thr[t].file_path) EXCEPT ![t] =
                       [thr[t] EXCEPT !.pc = "done", !.kind = "Moved",
                                      !.reason = thr[t].category,
                                      !.to = r.to]]
     ELSE /\ of_except(t, "move")
          /\ UNCHANGED <<fs, moves, gone>>
  /\ UNCHANGED <<config, observer, gui, Env, published>>

\* organize_file returns, and the handler with it: the thread is back in
\* the dispatch loop of the observer.
of_return(t) ==
  /\ thr[t].pc = "done"
  /\ thr' = [thr EXCEPT ![t] = Thread(SessionOf(thr[t]), Locals)]
  /\ UNCHANGED <<fs, config, observer, gui, Hist, Env>>

\* ---------------------------------------------------------- I/O errors
\* Path.exists() or Path.is_dir() raises (an OSError other than "no such
\* file", as for a folder that may not be searched): all the calls are
\* outside the try block of _is_file_ready, so the except branch of
\* organize_file takes it.
io_error_exists(t) ==
  /\ thr[t].pc \in {"of_exists", "of_isdir", "ifr_exists", "hd_exists",
                    "hd_loop"}
  /\ of_except(t, "exists")
  /\ UNCHANGED <<fs, config, observer, gui, Hist, Env>>

\* stat() raises something else than FileNotFoundError: `except Exception`
\* of _is_file_ready, `return False`, and organize_file skips.
io_error_stat(t) ==
  /\ thr[t].pc = "ifr_poll"
  /\ while_test(thr[t].total_wait_time)
  /\ Finish(t, "Skipped", "not_ready_error", <<>>)
  /\ UNCHANGED <<fs, config, observer, gui, Hist, Env>>

\* mkdir raises although nothing is in the way (permission denied, disk
\* full).
io_error_mkdir(t) ==
  /\ thr[t].pc \in {"gdp_others_mkdir", "gdp_mkdir"}
  /\ ~Exists(fs, thr[t].dest_folder)
  /\ of_except(t, "mkdir")
  /\ UNCHANGED <<fs, config, observer, gui, Hist, Env>>

\* The file system after a shutil.move that raised: as before when the rename
\* was refused; with the copy made and the source kept when, between two file
\* systems, the source could not be removed.
MoveFailed(f, src, dst, copied) ==
  IF copied /\ ~IsDir(f, dst) /\ IsDir(f, Parent(dst))
  THEN [q \in DOMAIN f \cup {dst} |-> IF q = dst THEN f[src] ELSE f[q]]
  ELSE f

\* shutil.move raises although the source is there.
io_error_move(t) ==
  /\ thr[t].pc = "move"
  /\ IsFile(fs, thr[t].file_path)
  /\ \E copied \in BOOLEAN :
       fs' = MoveFailed(fs, thr[t].file_path, thr[t].dest_path, copied)
  /\ of_except(t, "move")
  /\ UNCHANGED <<config, observer, gui, Hist, Env>>

IOError(t) ==
  io_error_exists(t) \/ io_error_stat(t) \/ io_error_mkdir(t)
    \/ io_error_move(t)

\* ------------------------------------------------ the observer sessions
\* The GUI thread outside every call: pc, the local downloads_folder of
\* start_monitoring, the position i of the loop of save_config.
GuiIdle == [pc |-> "idle", downloads_folder |-> <<>>, i |-> 0]

Unused == {t \in Threads : thr[t].st = "new"}

\* self.observer = Observer(); schedule(...); start()
NewObserver(downloads_folder) ==
  LET t == CHOOSE u \in Unused : \A v \in Unused : u <= v IN
  /\ observer' = t
  /\ thr' = [thr EXCEPT ![t] = Thread(Session("run", downloads_folder, <<>>),
                                      Locals)]

\* start_monitoring up to the join inside stop_monitoring, or to its end
\* when there is no observer to stop.
start_monitoring ==
  /\ gui.pc = "idle"
  /\ Unused # {}
  /\ config.downloads_folder # <<>>
  /\ Exists(fs, config.downloads_folder)
  /\ IF observer # 0
     THEN /\ thr' = [thr EXCEPT ![observer].st =
                       IF @ = "run" THEN "stop" ELSE @]
          /\ gui' = [GuiIdle EXCEPT
                       !.pc = "start_join",
                       !.downloads_folder = config.downloads_folder]
          /\ UNCHANGED observer
     ELSE /\ NewObserver(config.downloads_folder)
          /\ UNCHANGED gui
  /\ UNCHANGED <<fs, config, Hist, Env>>

\* stop_monitoring up to the join: self.observer.stop()
stop_monitoring ==
  /\ gui.pc = "idle"
  /\ observer # 0
  /\ thr' = [thr EXCEPT ![observer].st = IF @ = "run" THEN "stop" ELSE @]
  /\ gui' = [GuiIdle EXCEPT !.pc = "stop_join"]
  /\ UNCHANGED <<fs, config, observer, Hist, Env>>

\* The join without its timeout.
join_wait ==
  /\ gui.pc \in {"start_join", "stop_join"}
  /\ thr[observer].st = "dead"
  /\ IF gui.pc = "start_join"
     THEN NewObserver(gui.downloads_folder)
     ELSE observer' = 0 /\ UNCHANGED thr
  /\ gui' = GuiIdle
  /\ UNCHANGED <<fs, config, Hist, Env>>

\* self.observer.join(timeout=5) returns: the thread has ended, or it is
\* still inside a handler when the timeout expires.  Then self.observer =
\* None, and start_monitoring goes on to start the new observer.
join_return ==
  /\ gui.pc \in {"start_join", "stop_join"}
  /\ thr[observer].st = "dead" \/ thr[observer].pc # "idle"
  /\ IF gui.pc = "start_join"
     THEN NewObserver(gui.downloads_folder)
     ELSE observer' = 0 /\ UNCHANGED thr
  /\ gui' = GuiIdle
  /\ UNCHANGED <<fs, config, Hist, Env>>

\* A stopped observer thread leaves its loop once it is outside a handler;
\* the events still queued are dropped.
observer_exit(t) ==
  /\ thr[t].st = "stop"
  /\ thr[t].pc = "idle"
  /\ thr' = [thr EXCEPT ![t] = Thread(Session("dead", <<>>, <<>>), Locals)]
  /\ UNCHANGED <<fs, config, observer, gui, Hist, Env>>

\* ------------------------------------------------------ the environment
Emitting(p) == {t \in Threads : thr[t].st = "run" /\ thr[t].watch = Parent(p)}

\* The observers watching the folder of p queue the event.
Notify(ev) ==
  /\ \A t \in Emitting(ev.path) : Len(thr[t].queue) < MaxQueue
  /\ thr' = [t \in Threads |->
               IF t \in Emitting(ev.path)
               THEN [thr[t] EXCEPT !.queue = Append(@, ev)] ELSE thr[t]]

\* Another program creates the file p (empty so far).
Create(p) ==
  /\ ~Exists(fs, p)
  /\ IsDir(fs, Parent(p))
  /\ nfiles' = nfiles + 1
  /\ fs' = (p :> FileEntry(0, nfiles + 1)) @@ fs
  /\ Notify(Event("created", p))
  /\ gone' = gone \ {p}
  /\ sinceWrite' = 0
  /\ UNCHANGED <<config, observer, gui, moves, nwrites, form, published>>

EnvCreate(p) == nfiles < MaxFiles /\ Create(p)

\* Another program renames a file of its own to p, replacing the file at p
\* if there is one.
EnvMoveInto(p) ==
  /\ ~IsDir(fs, p)
  /\ IsDir(fs, Parent(p))
  /\ nfiles < MaxFiles
  /\ nfiles' = nfiles + 1
  /\ fs' = [x \in DOMAIN fs \cup {p} |->
              IF x = p THEN FileEntry(0, nfiles + 1) ELSE fs[x]]
  /\ Notify(Event("moved", p))
  /\ gone' = gone \ {p}
  /\ sinceWrite' = 0
  /\ UNCHANGED <<config, observer, gui, moves, nwrites, form, published>>

\* The size of the file p becomes s.
SetSize(p, s) ==
  /\ IsFile(fs, p)
  /\ s # fs[p].size
  /\ fs' = [fs EXCEPT ![p].size = s]
  /\ sinceWrite' = 0
  /\ UNCHANGED <<config, observer, thr, gui, Hist, nfiles, form>>

\* A write, counted.
EnvWrite(p, s) ==
  /\ nwrites < MaxWrites
  /\ nwrites' = nwrites + 1
  /\ SetSize(p, s)

\* A write, not counted.
EnvWriteAny(p, s) == SetSize(p, s) /\ UNCHANGED nwrites

\* A write that appends.
EnvGrow(p) ==
  /\ IsFile(fs, p)
  /\ fs[p].size < MaxGrow
  /\ SetSize(p, fs[p].size + 1)
  /\ UNCHANGED nwrites

\* The file p is deleted.
EnvDelete(p) ==
  /\ IsFile(fs, p)
  /\ fs' = Remove(fs, p)
  /\ UNCHANGED <<config, observer, thr, gui, Hist, Env>>

\* The file a run of t is about is deleted.
EnvDeleteOwn(t) == thr[t].pc # "idle" /\ EnvDelete(thr[t].file_path)

\* The observer t is handed an event for the path p, whatever folder it
\* watches: the handler takes every event that is not about a directory.
Redeliver(t, type, p) ==
  /\ thr[t].st = "run"
  /\ Len(thr[t].queue) < MaxQueue
  /\ thr' = [thr EXCEPT ![t].queue = Append(@, Event(type, p))]
  /\ UNCHANGED <<fs, config, observer, gui, Hist, Env>>

\* --------------------------------------------------------------- time
Sleeping == {t \in Threads : thr[t].slp > 0}

Elapse == thr' = [t \in Threads |->
                    IF t \in Sleeping THEN [thr[t] EXCEPT !.slp = @ - 1]
                    ELSE thr[t]]

\* A thread that is neither sleeping nor waiting for an event.
Busy(t) ==
  \/ thr[t].pc \notin {"idle", "ifr_sleep"}
  \/ thr[t].pc = "ifr_sleep" /\ thr[t].slp = 0
  \/ thr[t].pc = "idle" /\ thr[t].st = "run" /\ thr[t].queue # <<>>

\* One tick of the clock: the sleeps and the stopwatch advance; the steps of
\* the threads take no time.
Tick ==
  /\ \A t \in Threads : ~Busy(t)
  /\ Sleeping # {} \/ sinceWrite < StopwatchCap
  /\ Elapse
  /\ sinceWrite' = Min(sinceWrite + 1, StopwatchCap)
  /\ UNCHANGED <<fs, config, observer, gui, Hist, nfiles, nwrites, form>>

\* -------------------------------------------------------- the GUI form
\* FileOrganizerGUI.load_config: the form shows the configuration.
FormOf(cfg) ==
  [downloads_var |-> cfg.downloads_folder,
   category_vars |-> [i \in 1..Len(cfg.categories) |->
                        [category |-> cfg.categories[i].name,
                         var |-> cfg.categories[i].folder_path]]]

\* The entry of the category var in the categories: its folder_path set when
\* the category is there, a new rule without extensions added otherwise.
SetFolder(categories, v) ==
  IF \E i \in 1..Len(categories) : categories[i].name = v.category
  THEN [i \in 1..Len(categories) |->
          IF categories[i].name = v.category
          THEN [categories[i] EXCEPT !.folder_path = v.var]
          ELSE categories[i]]
  ELSE Append(categories, Rule(v.category, v.var, TRUE, {}))

RECURSIVE SetFolders(_, _, _)
SetFolders(categories, vs, i) ==
  IF i > Len(vs) THEN categories
  ELSE SetFolders(SetFolder(categories, vs[i]), vs, i + 1)

\* The configuration a save_config of the form f makes of cfg.
Saved(cfg, f) ==
  Config(f.downloads_var, cfg.handle_duplicates,
         SetFolders(cfg.categories, f.category_vars, 1))

\* FileOrganizerGUI.save_config, first statement:
\* self.organizer.config['downloads_folder'] = self.downloads_var.get()
save_config_downloads ==
  /\ gui.pc = "idle"
  /\ config' = [config EXCEPT !.downloads_folder = form.downloads_var]
  /\ published' = published \cup {Saved(config, form)}
  /\ gui' = [gui EXCEPT !.pc = "save_config", !.i = 1]
  /\ UNCHANGED <<fs, observer, thr, moves, gone, Env>>

\* One turn of `for category, var in self.category_vars.items()`.
save_config_category ==
  /\ gui.pc = "save_config"
  /\ gui.i <= Len(form.category_vars)
  /\ config' = [config EXCEPT
                  !.categories = SetFolder(@, form.category_vars[gui.i])]
  /\ gui' = [gui EXCEPT !.i = @ + 1]
  /\ UNCHANGED <<fs, observer, thr, Hist, Env>>

\* The loop is over: the configuration is written to its file, and
\* save_config returns.
save_config_return ==
  /\ gui.pc = "save_config"
  /\ gui.i > Len(form.category_vars)
  /\ gui' = GuiIdle
  /\ UNCHANGED <<fs, config, observer, thr, Hist, Env>>

save_config ==
  save_config_downloads \/ save_config_category \/ save_config_return

\* The user edits the form: another downloads folder, other folders.
EnvEdit(f) ==
  /\ gui.pc = "idle"
  /\ form # f
  /\ form' = f
  /\ UNCHANGED <<fs, config, observer, thr, gui, Hist, nfiles, nwrites,
                 sinceWrite>>

\* ------------------------------------------------- the checked universe
DL == << <<"dl">> >>
ImagesDir == Join(DL, <<"Images">>)
OthersDir == Join(DL, <<"Others">>)

PhotoJpg == <<"photo", ".", "jpg">>
Photo1Jpg == <<"photo", "_", "1", ".", "jpg">>
Photo2Jpg == <<"photo", "_", "2", ".", "jpg">>
UnknownXyz == <<"unknown", ".", "xyz">>

ImagesRule == Rule("Images", ImagesDir, TRUE, {<<"jpg">>, <<"png">>})

DisabledRule == Rule("Images", ImagesDir, FALSE, {<<"jpg">>, <<"png">>})

Policies == {"skip", "overwrite", "rename"}

\* The names that appear in the watched folder.
WatchNames == {PhotoJpg}
WatchPaths == {Join(DL, n) : n \in WatchNames}

\* File systems at start: the watched folder alone, or with an Images folder
\* holding earlier files of the given names.
EmptyFs == (DL :> DirEntry)
PhotoFs(names) ==
  [p \in {DL, ImagesDir} \cup {Join(ImagesDir, n) : n \in names} |->
     IF p \in {DL, ImagesDir} THEN DirEntry ELSE FileEntry(0, 0)]

\* The configurations of the concurrent model: the Images rule under each
\* policy, and the rule disabled (everything goes to Others).
MainConfigs ==
  {Config(DL, pol, <<ImagesRule>>) : pol \in Policies}
    \cup {Config(DL, "rename", <<DisabledRule>>)}

InitThreads == [t \in Threads |-> Thread(Session("new", <<>>, <<>>), Locals)]

Init ==
  /\ fs = EmptyFs
  /\ config \in MainConfigs
  /\ observer = 0
  /\ thr = InitThreads
  /\ gui = GuiIdle
  /\ moves = {}
  /\ gone = {}
  /\ nfiles = 0
  /\ nwrites = 0
  /\ sinceWrite = 0
  /\ form = FormOf(config)
  /\ published = {config}

\* The steps of an organize_file run, the end of the sleep apart.
Steps(t) ==
  \/ of_exists(t) \/ of_isdir(t) \/ of_scope(t)
  \/ ifr_exists(t) \/ ifr_poll(t)
  \/ gfc(t) \/ gdp_cfg(t) \/ gdp_others_cfg(t) \/ gdp_others_mkdir(t)
  \/ gdp_mkdir(t)
  \/ hd_exists(t) \/ hd_cfg(t) \/ hd_loop(t)
  \/ move(t) \/ of_return(t)

Pipeline(t) == Steps(t) \/ ifr_wake(t)

Next ==
  \/ \E t \in Threads : on_created(t) \/ on_moved(t) \/ Pipeline(t)
                          \/ observer_exit(t)
  \/ start_monitoring \/ stop_monitoring \/ join_return
  \/ \E p \in WatchPaths : EnvCreate(p) \/ EnvMoveInto(p) \/ EnvDelete(p)
  \/ \E p \in WatchPaths, s \in 0..MaxSize : EnvWrite(p, s)

Spec == Init /\ [][Next]_vars

\* ------------------------------------------- one run, any sizes (untimed)
\* One observer with a creation event for photo.jpg queued; the file may be
\* written (any size), deleted or left alone while the run goes on.
ReadyConfigs == {Config(DL, "rename", <<ImagesRule>>),
                 Config(DL, "rename", <<DisabledRule>>)}

OneThread(t, session, locals) ==
  [u \in Threads |-> IF u = t THEN Thread(session, locals)
                     ELSE Thread(Session("new", <<>>, <<>>), Locals)]

InitReady ==
  /\ fs = (Join(DL, PhotoJpg) :> FileEntry(0, 1)) @@ PhotoFs({PhotoJpg})
  /\ config \in ReadyConfigs
  /\ observer = 1
  /\ thr = OneThread(1, Session("run", DL,
                                <<Event("created", Join(DL, PhotoJpg))>>),
                     Locals)
  /\ gui = GuiIdle
  /\ moves = {}
  /\ gone = {}
  /\ nfiles = 1
  /\ nwrites = 0
  /\ sinceWrite = 0
  /\ form = FormOf(config)
  /\ published = {config}

NextReady ==
  \/ on_created(1)
  \/ Pipeline(1)
  \/ \E s \in 0..MaxSize : EnvWriteAny(Join(DL, PhotoJpg), s)
  \/ EnvDelete(Join(DL, PhotoJpg))

SpecReady == InitReady /\ [][NextReady]_vars

\* ------------------------------------------ one run, a growing file, timed
\* The same run on the clock: the file only grows, up to MaxGrow.
InitGrow == InitReady

NextGrow ==
  \/ on_created(1)
  \/ Steps(1)
  \/ ifr_wake_timed(1)
  \/ EnvGrow(Join(DL, PhotoJpg))
  \/ Tick

SpecGrow == InitGrow /\ [][NextGrow]_vars

\* The locals of a run of organize_file(path) right after _is_file_ready has
\* returned True for a file of size 0 that never changed.
ReadyLocals(path) ==
  [Locals EXCEPT !.pc = "gfc", !.file_path = path, !.last_size = 0,
                 !.stable_time = stability_period,
                 !.total_wait_time = stability_period,
                 !.polled = [i \in 1..Window |-> 0], !.nresets = 1]

\* ------------------------------------------------- get_file_category alone
\* A run about to categorize: any of the names below under any list of at
\* most MaxRules rules.
ClassifyNames ==
  {PhotoJpg, <<"photo", ".", "JPG">>, <<"Photo", ".", "png">>,
   <<"photo">>, <<"photo", ".">>, <<".", "jpg">>,
   <<"a", ".", "tar", ".", "gz">>, UnknownXyz}

RuleNames == <<"Images", "Archives", "Documents", "Code">>

ExtSets == {{<<"jpg">>, <<"png">>}, {<<"jpg">>}, {<<"gz">>, <<"JPG">>}, {}}

RuleLists ==
  UNION {[1..n -> ExtSets \X BOOLEAN] : n \in 0..MaxRules}

ClassifyConfig(l) ==
  Config(DL, "rename",
         [i \in 1..Len(l) |-> Rule(RuleNames[i], ImagesDir, l[i][2], l[i][1])])

InitClassify ==
  /\ \E n \in ClassifyNames :
       /\ fs = (Join(DL, n) :> FileEntry(0, 1)) @@ EmptyFs
       /\ thr = OneThread(1, Session("run", DL, <<>>),
                          ReadyLocals(Join(DL, n)))
  /\ \E l \in RuleLists : config = ClassifyConfig(l)
  /\ observer = 1
  /\ gui = GuiIdle
  /\ moves = {}
  /\ gone = {}
  /\ nfiles = 1
  /\ nwrites = 0
  /\ sinceWrite = 0
  /\ form = FormOf(config)
  /\ published = {config}

NextClassify == gfc(1)

SpecClassify == InitClassify /\ [][NextClassify]_vars

\* --------------------------------------------------- handle_duplicate alone
\* A run about to handle duplicates in the Images folder, which holds any of
\* the file's name and its first MaxDup numbered names.
DedupNames == {PhotoJpg, <<"photo">>, <<"a", ".", "tar", ".", "gz">>}

\* name with _k before its extension, written out for the names above.
Numbered(name, k) ==
  IF k = 0 THEN name
  ELSE IF name = PhotoJpg THEN <<"photo", "_">> \o Digits(k) \o <<".", "jpg">>
  ELSE IF name = <<"photo">> THEN <<"photo", "_">> \o Digits(k)
  ELSE <<"a", ".", "tar", "_">> \o Digits(k) \o <<".", "gz">>

InitDedup ==
  /\ \E n \in DedupNames, K \in SUBSET (0..MaxDup) :
       /\ fs = (Join(DL, n) :> FileEntry(0, 1))
                 @@ PhotoFs({Numbered(n, k) : k \in K})
       /\ thr = OneThread(1, Session("run", DL, <<>>),
                  [ReadyLocals(Join(DL, n)) EXCEPT
                     !.pc = "hd_exists", !.category = "Images",
                     !.dest_folder = ImagesDir,
                     !.dest_path = Join(ImagesDir, n)])
  /\ \E pol \in Policies : config = Config(DL, pol, <<ImagesRule>>)
  /\ observer = 1
  /\ gui = GuiIdle
  /\ moves = {}
  /\ gone = {}
  /\ nfiles = 1
  /\ nwrites = 0
  /\ sinceWrite = 0
  /\ form = FormOf(config)
  /\ published = {config}

NextDedup ==
  hd_exists(1) \/ hd_cfg(1) \/ hd_loop(1) \/ move(1) \/ of_return(1)

SpecDedup == InitDedup /\ [][NextDedup]_vars

\* ------------------------------------------------- three drops, end to end
\* One observer on /dl under the rename policy; photo.jpg, a second photo.jpg
\* and unknown.xyz are dropped in this order, each once its name is free, and
\* never written again.
Drops == <<PhotoJpg, PhotoJpg, UnknownXyz>>

EnvDrop == nfiles < Len(Drops) /\ Create(Join(DL, Drops[nfiles + 1]))

InitE2E ==
  /\ fs \in {EmptyFs, (ImagesDir :> DirEntry) @@ EmptyFs,
              (OthersDir :> DirEntry) @@ EmptyFs}
  /\ config = Config(DL, "rename", <<ImagesRule>>)
  /\ observer = 1
  /\ thr = OneThread(1, Session("run", DL, <<>>), Locals)
  /\ gui = GuiIdle
  /\ moves = {}
  /\ gone = {}
  /\ nfiles = 0
  /\ nwrites = 0
  /\ sinceWrite = 0
  /\ form = FormOf(config)
  /\ published = {config}

NextE2E == on_created(1) \/ Pipeline(1) \/ EnvDrop

SpecE2E == InitE2E /\ [][NextE2E]_vars

\* ------------------------------------------------------ one run, any path
\* organize_file called once, for a path inside or outside the watched folder:
\* a file with a known or an unknown extension, a hidden or a temporary file,
\* a folder, a path where nothing is.  The category folder is there, is
\* missing, is not set, is the watched folder itself or is taken by a file.
Home == << <<"home">> >>
PicsDir == Join(DL, <<"Pics">>)
Hidden == <<".", "hidden">>
PartTmp == <<"part", ".", "tmp">>
MissingJpg == <<"missing", ".", "jpg">>

RunFiles ==
  <<Join(ImagesDir, PhotoJpg), Join(DL, PhotoJpg), Join(DL, UnknownXyz),
    Join(DL, Hidden), Join(DL, PartTmp), Join(Home, PhotoJpg),
    Join(ImagesDir, UnknownXyz)>>

RunDirs == {DL, ImagesDir, Home}

RunPaths ==
  {RunFiles[i] : i \in 1..Len(RunFiles)} \cup {ImagesDir, Join(DL, MissingJpg)}

RunFs ==
  [p \in RunDirs \cup {RunFiles[i] : i \in 1..Len(RunFiles)} |->
     IF p \in RunDirs THEN DirEntry
     ELSE FileEntry(0, (CHOOSE i \in 1..Len(RunFiles) : RunFiles[i] = p) - 1)]

RunFolders == {ImagesDir, PicsDir, <<>>, DL, Join(DL, UnknownXyz)}

RunConfigs ==
  {Config(DL, pol, <<Rule("Images", f, TRUE, {<<"jpg">>, <<"png">>})>>) :
     pol \in Policies, f \in RunFolders}
  \cup {Config(DL, "rename", <<ImagesRule, Rule("Others", f, TRUE, {})>>) :
          f \in {<<>>, PicsDir}}

InitRun ==
  /\ fs = RunFs
  /\ config \in RunConfigs
  /\ observer = 1
  /\ \E p \in RunPaths :
       thr = OneThread(1, Session("run", DL, <<Event("created", p)>>), Locals)
  /\ gui = GuiIdle
  /\ moves = {}
  /\ gone = {}
  /\ nfiles = Len(RunFiles)
  /\ nwrites = 0
  /\ sinceWrite = 0
  /\ form = FormOf(config)
  /\ published = {config}

NextRun == on_created(1) \/ Pipeline(1) \/ EnvDeleteOwn(1)

SpecRun == InitRun /\ [][NextRun]_vars

\* ---------------------------------------- one run, any path, I/O errors
InitFault == InitRun

NextFault == NextRun \/ IOError(1)

SpecFault == InitFault /\ [][NextFault]_vars

\* --------------------------------------------- one observer, two files
\* One observer on /dl; photo.jpg and unknown.xyz are created at any time.
TwoPaths == {Join(DL, PhotoJpg), Join(DL, UnknownXyz)}

InitWait ==
  /\ fs = PhotoFs({PhotoJpg})
  /\ config = Config(DL, "rename", <<ImagesRule>>)
  /\ observer = 1
  /\ thr = OneThread(1, Session("run", DL, <<>>), Locals)
  /\ gui = GuiIdle
  /\ moves = {}
  /\ gone = {}
  /\ nfiles = 0
  /\ nwrites = 0
  /\ sinceWrite = 0
  /\ form = FormOf(config)
  /\ published = {config}

NextWait ==
  \/ on_created(1)
  \/ Pipeline(1)
  \/ \E p \in TwoPaths : EnvCreate(p)

SpecWait == InitWait /\ [][NextWait]_vars

\* --------------------------------------- one run, the configuration saved
\* One observer on /dl with an event queued for a file that is there, while
\* the user edits the form (the downloads folder, the folder of Images, the
\* folder of a category the configuration does not have yet) and saves it.
Forms ==
  {[downloads_var |-> d,
    category_vars |-> <<[category |-> "Images", var |-> f]>> \o a] :
     d \in {DL, Home}, f \in {ImagesDir, PicsDir},
     a \in {<<>>, <<[category |-> "Archives", var |-> PicsDir]>>}}

InitConfig ==
  /\ fs = RunFs
  /\ config = Config(DL, "rename", <<ImagesRule>>)
  /\ observer = 1
  /\ \E p \in TwoPaths :
       thr = OneThread(1, Session("run", DL, <<Event("created", p)>>), Locals)
  /\ gui = GuiIdle
  /\ moves = {}
  /\ gone = {}
  /\ nfiles = Len(RunFiles)
  /\ nwrites = 0
  /\ sinceWrite = 0
  /\ form = FormOf(config)
  /\ published = {config}

NextConfig ==
  \/ on_created(1)
  \/ Pipeline(1)
  \/ save_config
  \/ \E f \in Forms : EnvEdit(f)

SpecConfig == InitConfig /\ [][NextConfig]_vars

\* ------------------------------------------------ one observer, stopped
\* One observer on /dl, files created at any time, and stop_monitoring.  The
\* join returns in the end (its timeout is 5 s) and a stopped observer thread
\* that is outside a handler ends; nothing is assumed of the pace of a run.
InitStop == InitWait

NextStop ==
  \/ on_created(1)
  \/ Pipeline(1)
  \/ observer_exit(1)
  \/ stop_monitoring
  \/ join_return
  \/ \E p \in TwoPaths : EnvCreate(p)

SpecStop ==
  /\ InitStop
  /\ [][NextStop]_vars
  /\ WF_vars(join_return)
  /\ WF_vars(observer_exit(1))

\* ------------------------------------ one observer, events for moved files
\* One observer on /dl, the configuration never saved again.  Files appear in
\* /dl by creation or by a rename; the folder of Images is a subfolder that
\* exists or not, a folder elsewhere, or /dl itself.  At any time the
\* observer may be handed a creation or a move event for the path a file was
\* moved to.
AgainConfigs ==
  {Config(DL, pol, <<Rule("Images", f, TRUE, {<<"jpg">>, <<"png">>})>>) :
     pol \in Policies, f \in {ImagesDir, PicsDir, DL, Home}}

InitAgain ==
  /\ fs = PhotoFs({PhotoJpg})
  /\ config \in AgainConfigs
  /\ observer = 1
  /\ thr = OneThread(1, Session("run", DL, <<>>), Locals)
  /\ gui = GuiIdle
  /\ moves = {}
  /\ gone = {}
  /\ nfiles = 0
  /\ nwrites = 0
  /\ sinceWrite = 0
  /\ form = FormOf(config)
  /\ published = {config}

NextAgain ==
  \/ on_created(1)
  \/ on_moved(1)
  \/ Pipeline(1)
  \/ \E p \in TwoPaths : EnvCreate(p) \/ EnvMoveInto(p)
  \/ \E m \in moves, type \in {"created", "moved"} : Redeliver(1, type, m.to)

SpecAgain == InitAgain /\ [][NextAgain]_vars

\* ------------------------------------------- two files, observers restarted
\* photo.jpg and photo_1.jpg are created in /dl, /dl/Images holding a
\* photo.jpg already; monitoring is started, and started again at any time.
RacePaths == {Join(DL, PhotoJpg), Join(DL, Photo1Jpg)}

InitRace ==
  /\ fs = PhotoFs({PhotoJpg})
  /\ config \in {Config(DL, pol, <<ImagesRule>>) : pol \in {"skip", "rename"}}
  /\ observer = 0
  /\ thr = InitThreads
  /\ gui = GuiIdle
  /\ moves = {}
  /\ gone = {}
  /\ nfiles = 0
  /\ nwrites = 0
  /\ sinceWrite = 0
  /\ form = FormOf(config)
  /\ published = {config}

NextRace ==
  \/ \E t \in Threads :
       \/ on_created(t)
       \/ of_exists(t) \/ of_isdir(t) \/ of_scope(t)
       \/ ifr_exists(t) \/ ifr_poll(t) \/ ifr_wake(t)
       \/ gfc(t) \/ gdp_cfg(t) \/ gdp_mkdir(t)
       \/ hd_exists(t) \/ hd_cfg(t) \/ hd_loop(t) \/ move(t) \/ of_return(t)
       \/ observer_exit(t)
  \/ start_monitoring \/ join_return
  \/ \E p \in RacePaths : EnvCreate(p)

SpecRace == InitRace /\ [][NextRace]_vars

\* ------------------------------------------ one run, scheduled to its end
\* The run of SpecReady under the rename policy, the Images folder holding
\* photo.jpg and its first MaxDup numbered names.  The observer thread
\* goes on whenever it has a step to take, and time.sleep returns; the
\* programs that write or delete the file are under no obligation, and may
\* go on writing for ever.
InitTerm ==
  /\ fs = (Join(DL, PhotoJpg) :> FileEntry(0, 1))
            @@ PhotoFs({Numbered(PhotoJpg, j) : j \in 0..MaxDup})
  /\ config = Config(DL, "rename", <<ImagesRule>>)
  /\ observer = 1
  /\ thr = OneThread(1, Session("run", DL,
                                <<Event("created", Join(DL, PhotoJpg))>>),
                     Locals)
  /\ gui = GuiIdle
  /\ moves = {}
  /\ gone = {}
  /\ nfiles = 1
  /\ nwrites = 0
  /\ sinceWrite = 0
  /\ form = FormOf(config)
  /\ published = {config}

\* The steps of a run for a file of the Images category, and the writes.
NextTerm ==
  \/ on_created(1)
  \/ of_exists(1) \/ of_isdir(1) \/ of_scope(1)
  \/ ifr_exists(1) \/ ifr_poll(1) \/ ifr_wake(1)
  \/ gfc(1) \/ gdp_cfg(1) \/ gdp_mkdir(1)
  \/ hd_exists(1) \/ hd_cfg(1) \/ hd_loop(1) \/ move(1) \/ of_return(1)
  \/ \E s \in 0..MaxSize : EnvWriteAny(Join(DL, PhotoJpg), s)
  \/ EnvDelete(Join(DL, PhotoJpg))

SpecTerm ==
  /\ InitTerm
  /\ [][NextTerm]_vars
  /\ WF_vars(Pipeline(1))

\* =================================================================== claims
\* The positions of a run after _is_file_ready has returned True.
AfterReady == {"gfc", "gdp_cfg", "gdp_others_cfg", "gdp_others_mkdir",
               "gdp_mkdir", "hd_exists", "hd_cfg", "hd_loop", "move"}

\* The ways out of a run that lie after _is_file_ready has returned True.
LateReasons == {"no_folder", "same_folder", "duplicate", "mkdir", "move"}

PastReadiness(r) ==
  \/ r.pc \in AfterReady
  \/ r.pc = "done" /\ (r.kind = "Moved" \/ r.reason \in LateReasons)

\* Number of polls, counted back from the newest, that repeated the size of
\* the poll before them.
RECURSIVE Repeats(_)
Repeats(polled) ==
  IF Len(polled) < 2 THEN 0
  ELSE IF polled[Len(polled)] # polled[Len(polled) - 1] THEN 0
  ELSE 1 + Repeats(SubSeq(polled, 1, Len(polled) - 1))

\* C3: whatever a run does after the readiness wait (categorization, folder
\* creation, duplicate handling, the move) it does after polls that saw the
\* same size stability_period / check_interval times in a row after a first
\* one, i.e. a size unchanged over at least the stability period.
C3_MoveOnlyAfterStable ==
  \A t \in Threads :
    PastReadiness(thr[t]) =>
      /\ Len(thr[t].polled) = Window
      /\ Repeats(thr[t].polled) * check_interval >= stability_period
      /\ thr[t].stable_time >= stability_period

C3_Witness ==
  \E t \in Threads :
    /\ thr[t].pc = "done" /\ thr[t].kind = "Moved"
    /\ thr[t].total_wait_time > stability_period
    /\ Repeats(thr[t].polled) * check_interval >= stability_period

\* C4: in the polling loop the stable-time counter is check_interval times
\* the number of latest polls that repeated the previous size (0 right after
\* a poll that saw a new size), it stays below the threshold while the loop
\* goes on, and True is returned exactly when it reaches the threshold: at
\* the fourth poll in a row that repeats the previous size.
C4_StableCounter ==
  \A t \in Threads :
    /\ thr[t].pc \in {"ifr_sleep", "ifr_poll"} /\ thr[t].polled # <<>> =>
         /\ thr[t].stable_time = check_interval * Repeats(thr[t].polled)
         /\ thr[t].stable_time < stability_period
         /\ thr[t].last_size = thr[t].polled[Len(thr[t].polled)]
    /\ thr[t].pc = "gfc" =>
         /\ thr[t].stable_time = check_interval * Repeats(thr[t].polled)
         /\ thr[t].stable_time = stability_period
         /\ Repeats(thr[t].polled) = 4

C4_Witness ==
  \E t \in Threads :
    /\ thr[t].pc = "gfc"
    /\ Repeats(thr[t].polled) = 4
    /\ thr[t].nresets >= 3

C6_DeletedSkips ==
  [][\A t \in Threads :
       /\ thr[t].pc \in {"ifr_exists", "ifr_poll"}
       /\ ~Exists(fs, thr[t].file_path)
       /\ thr'[t] # thr[t]
       => /\ thr'[t].pc = "done"
          /\ thr'[t].kind = "Skipped"
          /\ thr'[t].polled = thr[t].polled
          /\ thr'[t].total_wait_time = thr[t].total_wait_time
          /\ fs' = fs]_vars

C6_Witness ==
  \E t \in Threads :
    /\ thr[t].pc = "done" /\ thr[t].reason = "not_ready_disappeared"
    /\ thr[t].kind = "Skipped"
    /\ thr[t].polled # <<>>
    /\ ~Exists(fs, thr[t].file_path)

\* C7: with the steps of the run taking no time, True is returned no earlier
\* than the stability period after the last write to the file and, when a
\* growth was seen after the first poll (as for a file seen growing over three
\* polls in a row), no later than the stability period plus one poll interval
\* after it.
C7_ReadyTiming ==
  [][\A t \in Threads :
       thr[t].pc = "ifr_poll" /\ thr'[t].pc = "gfc" =>
         /\ sinceWrite >= stability_period * TicksPerPoll
         /\ thr'[t].nresets >= 2 =>
              sinceWrite <= (stability_period + check_interval) * TicksPerPoll
    ]_vars

\* Three polls in a row saw a new size, the next four the same one.
C7_Witness ==
  \E t \in Threads :
    /\ thr[t].pc = "gfc"
    /\ thr[t].nresets = 3
    /\ thr[t].total_wait_time = 2 * check_interval + stability_period
    /\ thr[t].last_size = 2
    /\ sinceWrite > stability_period * TicksPerPoll
    /\ sinceWrite < (stability_period + check_interval) * TicksPerPoll

\* The extension of a name: what follows its last dot, lower-cased, when that
\* dot is neither the first nor the last token; nothing otherwise.
ExtensionOf(name) ==
  LET D == {i \in 1..Len(name) : name[i] = Dot}
      last == CHOOSE i \in D : \A j \in D : j <= i
  IN  IF D = {} THEN <<>>
      ELSE IF last = 1 \/ last = Len(name) THEN <<>>
      ELSE [j \in 1..(Len(name) - last) |-> LowerTok(name[last + j])]

\* The rules of cfg that are enabled and list the extension ext.
Matching(cfg, ext) ==
  {i \in 1..Len(cfg.categories) :
     cfg.categories[i].enabled /\ ext \in cfg.categories[i].extensions}

\* C8: the category is the name of the first rule, in the order of the
\* configuration, that is enabled and lists the lower-cased extension of the
\* file; "Others" when there is no such rule, and so for a name without
\* extension.
C8_Classify ==
  \A t \in Threads :
    thr[t].pc = "gdp_cfg" =>
      LET ext == ExtensionOf(NameOf(thr[t].file_path))
          M == Matching(config, ext)
      IN  /\ M = {} => thr[t].category = "Others"
          /\ M # {} =>
               \E i \in M : /\ \A j \in M : i <= j
                            /\ thr[t].category = config.categories[i].name
          /\ ext = <<>> => thr[t].category = "Others"

\* An upper-case extension, listed by a disabled first rule and an enabled
\* second one.
C8_Witness ==
  \E t \in Threads :
    /\ thr[t].pc = "gdp_cfg"
    /\ NameOf(thr[t].file_path) = <<"photo", ".", "JPG">>
    /\ Len(config.categories) = 2
    /\ ~config.categories[1].enabled
    /\ <<"jpg">> \in config.categories[1].extensions
    /\ thr[t].category = config.categories[2].name

\* The numbered names of the destination o that exist, and the k-th one.
Candidate(o, k) == Join(Parent(o), Numbered(NameOf(o), k))

\* C9: when the renaming loop has run, the path it returns is the name of the
\* destination with _k before the extension, for the smallest k >= 1 whose
\* path does not exist, and that path does not exist; with photo.jpg and
\* photo_1.jpg there it is photo_2.jpg.
C9_RenameFirstFree ==
  \A t \in Threads :
    thr[t].pc = "move" /\ thr[t].original_dest_path # <<>> =>
      LET o == thr[t].original_dest_path IN
      /\ config.handle_duplicates = "rename"
      /\ Exists(fs, o)
      /\ ~Exists(fs, thr[t].dest_path)
      /\ \E k \in 1..(MaxDup + 1) :
           /\ thr[t].dest_path = Candidate(o, k)
           /\ \A j \in 1..(k - 1) : Exists(fs, Candidate(o, j))
      /\ (/\ o = Join(ImagesDir, PhotoJpg)
          /\ Exists(fs, Join(ImagesDir, Photo1Jpg))
          /\ ~Exists(fs, Join(ImagesDir, Photo2Jpg)))
           => thr[t].dest_path = Join(ImagesDir, Photo2Jpg)

C9_Witness ==
  \E t \in Threads :
    /\ thr[t].pc = "move"
    /\ thr[t].original_dest_path = Join(ImagesDir, PhotoJpg)
    /\ Exists(fs, Join(ImagesDir, PhotoJpg))
    /\ Exists(fs, Join(ImagesDir, Photo1Jpg))
    /\ thr[t].dest_path = Join(ImagesDir, Photo2Jpg)

\* The destination get_destination_path returned to the run r.
Resolved(r) == Join(r.dest_folder, NameOf(r.file_path))

\* The file that was at the destination before the run is still there.
Earlier(p) == IsFile(fs, p) /\ fs[p].id = 0

\* C10: handle_duplicate returns the destination as it is when nothing is
\* there, under every policy, and when something is there under the overwrite
\* policy; under the skip policy with something there it returns None, the
\* run ends as a Skip and nothing is moved.
C10_DuplicatePolicies ==
  \A t \in Threads :
    LET r == thr[t] IN
    /\ r.pc = "move" /\ ~Exists(fs, Resolved(r)) => r.dest_path = Resolved(r)
    /\ r.pc = "move" /\ config.handle_duplicates = "overwrite" =>
         r.dest_path = Resolved(r)
    /\ r.pc = "move" /\ config.handle_duplicates = "skip" =>
         ~Exists(fs, Resolved(r))
    /\ r.pc = "done" /\ r.reason = "duplicate" =>
         /\ config.handle_duplicates = "skip"
         /\ r.kind = "Skipped"
         /\ Earlier(Resolved(r))
         /\ IsFile(fs, r.file_path)
    /\ (/\ r.pc \in {"hd_exists", "hd_cfg", "hd_loop", "move", "done"}
        /\ config.handle_duplicates = "skip"
        /\ Earlier(Resolved(r)))
         => moves = {} /\ r.kind # "Moved"

C10_Witness ==
  \E t \in Threads :
    /\ thr[t].pc = "done" /\ thr[t].reason = "duplicate"
    /\ config.handle_duplicates = "skip"
    /\ Earlier(Resolved(thr[t]))
    /\ IsFile(fs, thr[t].file_path)

\* C1: a run for a path that an earlier run moved the file from, nothing
\* having appeared at the path since, finds the path missing and ends as a
\* Skip at the existence check: no move, no Failed.
C1_SecondRunSkips ==
  /\ \A p \in gone : ~Exists(fs, p)
  /\ \A t \in Threads :
       (/\ thr[t].pc # "idle"
        /\ thr[t].after_gone
        /\ thr[t].file_path \in gone)
         => \/ thr[t].pc = "of_exists"
            \/ /\ thr[t].pc = "done"
               /\ thr[t].kind = "Skipped"
               /\ thr[t].reason = "not_found"

C1_Witness ==
  \E t \in Threads :
    /\ thr[t].pc = "done"
    /\ thr[t].after_gone
    /\ thr[t].file_path \in gone
    /\ thr[t].reason = "not_found"
    /\ \E m \in moves : m.from = thr[t].file_path

\* C2: no file is moved twice, and a run overtaken by the move of another
\* run on the same path (nothing having appeared at the path since) does not
\* end as Failed.
C2_RaceIsSkip ==
  /\ \A m1, m2 \in moves : m1.id = m2.id => m1 = m2
  /\ \A t \in Threads :
       (/\ thr[t].pc = "done"
        /\ thr[t].raced
        /\ thr[t].file_path \in gone)
         => thr[t].kind # "Failed"

\* The observer t has nothing left to do.
Quiet(t) == thr[t].pc = "idle" /\ thr[t].queue = <<>>

\* The files (not the folders) of the folder dir.
FilesIn(dir) == {p \in DOMAIN fs : Parent(p) = dir /\ fs[p].kind = "file"}

\* C11: with /dl watched, Images {jpg, png} -> /dl/Images and the rename
\* policy, once photo.jpg, a second photo.jpg and unknown.xyz have been
\* dropped and their events handled, the first is /dl/Images/photo.jpg, the
\* second /dl/Images/photo_1.jpg, the third /dl/Others/unknown.xyz, and no
\* file is left in /dl.
C11_EndToEnd ==
  nfiles = Len(Drops) /\ Quiet(1) =>
    /\ IsFile(fs, Join(ImagesDir, PhotoJpg))
    /\ fs[Join(ImagesDir, PhotoJpg)].id = 1
    /\ IsFile(fs, Join(ImagesDir, Photo1Jpg))
    /\ fs[Join(ImagesDir, Photo1Jpg)].id = 2
    /\ IsFile(fs, Join(OthersDir, UnknownXyz))
    /\ fs[Join(OthersDir, UnknownXyz)].id = 3
    /\ FilesIn(DL) = {}
    /\ Cardinality(moves) = 3

C11_Witness ==
  /\ nfiles = Len(Drops) /\ Quiet(1)
  /\ IsFile(fs, Join(ImagesDir, Photo1Jpg))
  /\ IsFile(fs, Join(OthersDir, UnknownXyz))
  /\ FilesIn(DL) = {}

\* The folders of the file system f.
Dirs(f) == {p \in DOMAIN f : f[p].kind = "dir"}

\* The run r has polled nothing, and nothing was moved or created.
Untouched(r) ==
  /\ r.polled = <<>>
  /\ r.total_wait_time = 0
  /\ moves = {}
  /\ Dirs(fs) = Dirs(RunFs)
  /\ \A p \in DOMAIN fs : fs[p] = RunFs[p]

\* C12: a run for a file whose parent folder is not the watched folder never
\* gets past the scope check: it ends as a Skip, whatever the extension,
\* without a poll, a folder created or a move.
C12_ScopeGuard ==
  \A t \in Threads :
    thr[t].pc # "idle" /\ Parent(thr[t].file_path) # config.downloads_folder
      => /\ thr[t].pc \in {"of_exists", "of_isdir", "of_scope", "done"}
         /\ thr[t].pc = "done" =>
              /\ thr[t].kind = "Skipped"
              /\ thr[t].reason \in {"not_found", "hidden_tmp_dir",
                                     "out_of_scope"}
         /\ Untouched(thr[t])

\* A jpg in the Images folder below the watched folder.
C12_Witness ==
  \E t \in Threads :
    /\ thr[t].pc = "done" /\ thr[t].reason = "out_of_scope"
    /\ thr[t].kind = "Skipped"
    /\ thr[t].file_path = Join(ImagesDir, PhotoJpg)
    /\ IsFile(fs, thr[t].file_path)
    /\ get_file_category(config, thr[t].file_path) = "Images"

\* The path p was no file when the run began, or its name is that of a
\* hidden or a temporary file.
Invalid(p) ==
  \/ ~Exists(RunFs, p)
  \/ IsDir(RunFs, p)
  \/ StartsWithDot(NameOf(p))
  \/ EndsWithTmp(NameOf(p))

\* C13: a run for a path that does not exist, is a folder, or has a name that
\* starts with "." or ends with ".tmp" ends as a Skip at the first two checks,
\* without a poll, a folder created or a move.
C13_ValidationGuard ==
  \A t \in Threads :
    thr[t].pc # "idle" /\ Invalid(thr[t].file_path)
      => /\ thr[t].pc \in {"of_exists", "of_isdir", "done"}
         /\ thr[t].pc = "done" =>
              /\ thr[t].kind = "Skipped"
              /\ thr[t].reason \in {"not_found", "hidden_tmp_dir"}
              /\ thr[t].reason = "not_found" => ~Exists(fs, thr[t].file_path)
         /\ Untouched(thr[t])

\* A folder inside the watched folder.
C13_Witness ==
  \E t \in Threads :
    /\ thr[t].pc = "done" /\ thr[t].reason = "hidden_tmp_dir"
    /\ thr[t].kind = "Skipped"
    /\ thr[t].file_path = ImagesDir
    /\ IsDir(fs, thr[t].file_path)

\* The positions inside a run.
InRun(r) == r.pc \notin {"idle", "done"}

\* C14: whatever the path, the file system and the errors raised by the
\* existence tests, stat, mkdir and the move, a run is never stuck and, when
\* organize_file returns, it has exactly one outcome, Moved, Skipped or
\* Failed: Moved when it moved the file, Failed when an error was caught by
\* the except branch; no error leaves organize_file.
C14_OneOutcome ==
  \A t \in Threads :
    /\ InRun(thr[t]) => thr[t].kind = "" /\ ENABLED Pipeline(t)
    /\ thr[t].pc = "done" =>
         /\ thr[t].kind \in {"Moved", "Skipped", "Failed"}
         /\ thr[t].kind = "Moved" <=>
              \E m \in moves : m.from = thr[t].file_path /\ m.to = thr[t].to
         /\ thr[t].kind = "Failed" <=>
              thr[t].reason \in {"exists", "mkdir", "move"}

\* The move raised with the source in place.
C14_Witness ==
  \E t \in Threads :
    /\ thr[t].pc = "done" /\ thr[t].kind = "Failed"
    /\ thr[t].reason = "move"
    /\ IsFile(fs, thr[t].file_path)
    /\ moves = {}

\* C15: a folder creation or a move that fails ends the run as Failed in
\* that step, nothing being recorded as moved and the file, if it was at its
\* path in the watched folder, being there as before; all a Failed run does
\* afterwards is to return.
C15_FailedKeepsFile ==
  [][\A t \in Threads :
       LET r == thr[t]
           failed ==
             \/ r.pc = "move" /\ moves' = moves
             \/ r.pc \in {"gdp_others_mkdir", "gdp_mkdir"}
                  /\ ~IsDir(fs', r.dest_folder)
       IN
       /\ r.pc \in {"gdp_others_mkdir", "gdp_mkdir", "move"}
            /\ thr'[t] # r /\ failed
            => /\ thr'[t].pc = "done"
               /\ thr'[t].kind = "Failed"
               /\ moves' = moves
               /\ Parent(r.file_path) = config.downloads_folder
               /\ IsFile(fs, r.file_path) =>
                    /\ IsFile(fs', r.file_path)
                    /\ fs'[r.file_path] = fs[r.file_path]
       /\ r.pc = "done" /\ r.kind = "Failed" /\ thr'[t] # r
            => /\ thr'[t].pc = "idle"
               /\ fs' = fs
               /\ moves' = moves
    ]_vars

\* The creation of the Pics folder failed.
C15_Witness ==
  \E t \in Threads :
    /\ thr[t].pc = "done" /\ thr[t].kind = "Failed"
    /\ thr[t].reason = "mkdir"
    /\ thr[t].dest_folder = PicsDir
    /\ ~Exists(fs, PicsDir)
    /\ IsFile(fs, thr[t].file_path)
    /\ Parent(thr[t].file_path) = DL

\* get_destination_path has returned a path to the run r.
GotPath(r) ==
  \/ r.pc \in {"hd_exists", "hd_cfg", "hd_loop", "move"}
  \/ r.pc = "done" /\ (r.kind = "Moved"
                         \/ r.reason \in {"same_folder", "duplicate", "move"})

\* The category of the run r is a rule of the configuration that has no
\* folder.
NoFolder(r) ==
  HasCategory(config, r.category)
    /\ CategoryInfo(config, r.category).folder_path = <<>>

\* C16: get_destination_path returns None exactly for a category that is a
\* rule without folder: the run then ends as a Skip, no folder created, no
\* file touched.  When it returns a path, the path is the file's name in the
\* folder of the rule, or in downloads_folder/Others when the category (then
\* "Others") is no rule, and the folder exists.  (A folder creation that
\* raises returns nothing: C15.)
C16_Resolve ==
  \A t \in Threads :
    LET r == thr[t] IN
    /\ r.pc = "done" /\ r.reason = "no_folder" =>
         /\ NoFolder(r)
         /\ r.kind = "Skipped"
         /\ moves = {}
         /\ Dirs(fs) = Dirs(RunFs)
         /\ \A p \in DOMAIN fs : fs[p] = RunFs[p]
    /\ r.pc \in {"gdp_others_cfg", "gdp_others_mkdir", "gdp_mkdir"}
         \/ GotPath(r) => ~NoFolder(r)
    /\ GotPath(r) =>
         /\ r.category = get_file_category(config, r.file_path)
         /\ HasCategory(config, r.category) =>
              r.dest_folder = CategoryInfo(config, r.category).folder_path
         /\ ~HasCategory(config, r.category) =>
              /\ r.category = "Others"
              /\ r.dest_folder = Join(config.downloads_folder, <<"Others">>)
         /\ IsDir(fs, r.dest_folder)
         /\ r.pc \in {"hd_exists", "hd_cfg"} =>
              r.dest_path = Join(r.dest_folder, NameOf(r.file_path))

\* A jpg under an Images rule without folder: skipped, the file in place.
C16_Witness ==
  \E t \in Threads :
    /\ thr[t].pc = "done" /\ thr[t].reason = "no_folder"
    /\ thr[t].kind = "Skipped"
    /\ thr[t].category = "Images"
    /\ IsFile(fs, thr[t].file_path)
    /\ ~Exists(fs, OthersDir)

\* The run of t is in the readiness wait.
Waiting(t) == thr[t].pc \in {"ifr_poll", "ifr_sleep"}

\* C17: while the run for one file is in the readiness wait, the event
\* queued for another file can be handled: the handler can be called for it.
C17_WaitDoesNotStall ==
  \A t \in Threads :
    (/\ Waiting(t)
     /\ thr[t].queue # <<>>
     /\ Head(thr[t].queue).path # thr[t].file_path)
      => ENABLED (on_created(t) \/ on_moved(t))

\* The run r has taken its destination folder from the configuration.
GotFolder(r) ==
  r.pc \in {"gdp_others_mkdir", "gdp_mkdir"} \/ GotPath(r)

\* What the run r has read of the configuration is what the version v says:
\* the downloads folder its file passed the scope check with, the folder of
\* its category, or downloads_folder/Others when the category is no rule.
ReadFrom(r, v) ==
  /\ v.downloads_folder = Parent(r.file_path)
  /\ r.dest_folder =
       IF HasCategory(v, r.category)
       THEN CategoryInfo(v, r.category).folder_path
       ELSE Join(v.downloads_folder, <<"Others">>)

\* C18: what a run has read of the configuration (the downloads folder, the
\* folder of its category) all comes from one of the configurations saved,
\* whatever save_config does in the meantime.
C18_SingleSnapshot ==
  \A t \in Threads :
    GotFolder(thr[t]) => \E v \in published : ReadFrom(thr[t], v)

\* C19: the join of stop_monitoring can return while the run of the observer
\* is still in progress, and stop_monitoring does return, whatever the run
\* does; from the stop on, the stopped observer queues no event and starts
\* no run.
C19_StopBounded ==
  /\ [](gui.pc = "stop_join" /\ InRun(thr[observer]) => ENABLED join_return)
  /\ (gui.pc = "stop_join") ~> (gui.pc = "idle" /\ observer = 0)
  /\ [][\A t \in Threads :
          thr[t].st \in {"stop", "dead"} =>
            /\ thr[t].pc = "idle" => thr'[t].pc = "idle"
            /\ Len(thr'[t].queue) <= Len(thr[t].queue)
            /\ thr'[t].st # "run"]_vars

\* stop_monitoring has returned, the run of the stopped observer goes on.
C19_Witness ==
  /\ gui.pc = "idle"
  /\ observer = 0
  /\ thr[1].st = "stop"
  /\ thr[1].pc = "ifr_sleep"
  /\ IsFile(fs, Join(DL, UnknownXyz))

\* C20: a run that ends as a Skip has created no folder and moved no file;
\* a run that has created a folder goes on to the move.
C20_SkipChangesNothing ==
  \A t \in Threads :
    /\ thr[t].pc = "done" /\ thr[t].kind = "Skipped" =>
         thr[t].created = {} /\ thr[t].to = <<>>
    /\ thr[t].created # {} =>
         \/ thr[t].pc \in {"gdp_mkdir", "hd_exists", "hd_cfg", "hd_loop",
                           "move"}
         \/ thr[t].pc = "done" /\ thr[t].reason \notin {"same_folder",
                                                          "duplicate"}

\* C21: a run whose resolved destination folder is the folder the file is in
\* (a rule whose folder is the watched folder) ends as a Skip at the
\* same-folder test, under every duplicate policy: it never reaches
\* handle_duplicate or the move, no move is recorded and no file of the file
\* system has changed its path, name or content.
C21_SameFolderSkips ==
  \A t \in Threads :
    LET r == thr[t] IN
    r.dest_folder # <<>> /\ r.dest_folder = Parent(r.file_path)
      => /\ r.pc \in {"gdp_mkdir", "done"}
         /\ r.pc = "done" =>
              r.kind = "Skipped" /\ r.reason = "same_folder" /\ r.to = <<>>
         /\ r.dest_path = <<>>
         /\ moves = {}
         /\ Dirs(fs) = Dirs(RunFs)
         /\ \A p \in DOMAIN fs : fs[p] = RunFs[p]

\* photo.jpg in /dl with Images -> /dl, policy overwrite: skipped, in place.
C21_Witness ==
  \E t \in Threads :
    /\ thr[t].pc = "done" /\ thr[t].reason = "same_folder"
    /\ thr[t].file_path = Join(DL, PhotoJpg)
    /\ thr[t].dest_folder = DL
    /\ config.handle_duplicates = "overwrite"
    /\ IsFile(fs, Join(DL, PhotoJpg))
    /\ fs[Join(DL, PhotoJpg)] = RunFs[Join(DL, PhotoJpg)]

\* The moves that went to the path p.
MovedTo(p) == {m \in moves : m.to = p}

\* C22: with the configuration unchanged, every move takes a file out of the
\* watched folder to a path that is not in it, no file is moved twice, and a
\* run for a path a file was moved to never gets past the scope check: it
\* ends as a Skip there.
C22_NeverMovedAgain ==
  /\ \A m \in moves :
       /\ Parent(m.from) = config.downloads_folder
       /\ Parent(m.to) # config.downloads_folder
  /\ \A m1, m2 \in moves : m1.id = m2.id => m1 = m2
  /\ \A t \in Threads :
       thr[t].pc # "idle" /\ MovedTo(thr[t].file_path) # {}
         => /\ thr[t].pc \in {"of_exists", "of_isdir", "of_scope", "done"}
            /\ thr[t].pc = "done" =>
                 /\ thr[t].kind = "Skipped"
                 /\ thr[t].reason = "out_of_scope"

\* A run for the path a file was moved to, the file being there, has ended.
C22_Witness ==
  \E t \in Threads, m \in moves :
    /\ thr[t].pc = "done" /\ thr[t].reason = "out_of_scope"
    /\ thr[t].file_path = m.to
    /\ IsFile(fs, m.to) /\ fs[m.to].id = m.id
    /\ Cardinality(moves) = 2

\* The files outside the watched folder.
Organized(f) ==
  {p \in DOMAIN f : f[p].kind = "file" /\ Parent(p) # config.downloads_folder}

\* C23: under the skip and rename policies every file of a destination folder
\* stays at its path with its content at every step, and no two moves go to
\* the same path.
C23_NoReplace ==
  /\ [](config.handle_duplicates \in {"skip", "rename"} =>
          \A m1, m2 \in moves : m1.to = m2.to => m1 = m2)
  /\ [][config.handle_duplicates \in {"skip", "rename"} =>
          \A p \in Organized(fs) : p \in DOMAIN fs' /\ fs'[p] = fs[p]]_vars

\* C24: a run makes at most max_wait_time / check_interval polls, the rename
\* loop has tried at most one name per file of the destination folder, and
\* every run the observer has started reaches an outcome, however long the
\* file is written.
C24_Terminates ==
  /\ [](\A t \in Threads :
          /\ thr[t].total_wait_time <= max_wait_time
          /\ thr[t].pc = "ifr_sleep" =>
               thr[t].total_wait_time + check_interval <= max_wait_time
          /\ thr[t].pc = "hd_loop" =>
               thr[t].counter <= Cardinality(FilesIn(ImagesDir)) + 1)
  /\ thr[observer].pc # "idle" ~> thr[observer].pc = "done"

\* The file was written throughout the wait: the run made its last poll at
\* max_wait_time - check_interval and gave up.
C24_Witness ==
  \E t \in Threads :
    /\ thr[t].pc = "done" /\ thr[t].reason = "not_ready_timeout"
    /\ thr[t].total_wait_time = max_wait_time
    /\ thr[t].stable_time = 0
    /\ thr[t].nresets = Window

\* The observer threads that take events, and those inside organize_file.
Delivering == {t \in Threads : thr[t].st = "run"}
Running == {t \in Threads : thr[t].pc \notin {"idle", "done"}}

\* C25: at most one observer takes events at any time, and the runs in
\* progress at any time are those of one observer: a run of the observer
\* that start_monitoring stopped is over before a run of the new one starts.
C25_OneObserver ==
  /\ Cardinality(Delivering) <= 1
  /\ Cardinality(Running) <= 1

====
